---------------------------- MODULE Spec2Model ----------------------------
(***************************************************************************)
(* Marathon training log (src/src/App.tsx) against its record store        *)
(* (src/supabase/migrations/20250222071649_golden_shape.sql).              *)
(*                                                                         *)
(* The client is a single React component: session, records, showForm,     *)
(* loading and formData are its state; every handler runs to its first     *)
(* await, the remote call is served by the store at some later moment, and *)
(* the continuation of the handler runs when the response is delivered.    *)
(* Requests in flight are kept in a bag: the transport gives no order.     *)
(*                                                                         *)
(* Text that the code parses or formats (distance, duration, pace) is a    *)
(* sequence of one-character strings; opaque text (date, location, notes)  *)
(* is a string.  A JavaScript number is a rational n/d, possibly one ulp   *)
(* below it, or Infinity, or NaN.  Distances are multiples of 0.1 km and   *)
(* are kept in tenths of a kilometre.                                      *)
(***************************************************************************)
EXTENDS Integers, Sequences, FiniteSets, Bags, TLC

VARIABLES
    store,        \* rows of training_records
    nextId,       \* next value of gen_random_uuid()
    authSession,  \* the session held by supabase.auth (the token of a request)
    session,      \* useState: session
    records,      \* useState: records
    showForm,     \* useState: showForm
    loading,      \* useState: loading
    formData,     \* useState: formData
    inflight,     \* remote calls awaiting their response
    fetchErr,     \* history: a list fetch of this session has failed
    acted,        \* history: a create or delete of this session has succeeded
    last,         \* history: the event handled last
    paceDistance, \* argument of calculatePace (tenths of a km)
    paceDuration, \* argument of calculatePace
    paceResult    \* its result

vars == <<store, nextId, authSession, session, records, showForm, loading,
          formData, inflight, fetchErr, acted, last, paceDistance, paceDuration,
          paceResult>>

appVars == <<store, nextId, authSession, session, records, showForm, loading,
             formData, inflight, fetchErr, acted, last>>

paceVars == <<paceDistance, paceDuration, paceResult>>

(***************************************************************************)
(* Bounds                                                                  *)
(***************************************************************************)
MaxCreates == 1
MaxInflight == 2
MaxDist10 == 125
MaxHours == 2
MaxMinutes == 59

(***************************************************************************)
(* Text                                                                    *)
(***************************************************************************)
Digits == <<"0", "1", "2", "3", "4", "5", "6", "7", "8", "9">>

IsDigit(c) == \E i \in 1..10 : Digits[i] = c

DigitVal(c) == (CHOOSE i \in 1..10 : Digits[i] = c) - 1

AllDigits(s) == \A i \in 1..Len(s) : IsDigit(s[i])

RECURSIVE IntToStr(_)
IntToStr(n) ==
    IF n < 10 THEN <<Digits[n + 1]>>
    ELSE IntToStr(n \div 10) \o <<Digits[(n % 10) + 1]>>

RECURSIVE IntVal(_)
IntVal(s) ==
    IF s = <<>> THEN 0
    ELSE IntVal(SubSeq(s, 1, Len(s) - 1)) * 10 + DigitVal(s[Len(s)])

RECURSIVE padStart(_, _, _)
padStart(s, n, c) == IF Len(s) >= n THEN s ELSE padStart(<<c>> \o s, n, c)

RECURSIVE split(_, _)
split(s, sep) ==
    IF \E i \in 1..Len(s) : s[i] = sep
    THEN LET i == CHOOSE k \in 1..Len(s) :
                      s[k] = sep /\ \A j \in 1..(k - 1) : s[j] # sep
         IN <<SubSeq(s, 1, i - 1)>> \o split(SubSeq(s, i + 1, Len(s)), sep)
    ELSE <<s>>

(***************************************************************************)
(* JavaScript numbers                                                      *)
(***************************************************************************)
Scale == 10

Fin(n, d) == [k |-> "fin", n |-> n, d |-> d, below |-> FALSE]
Infinity == [k |-> "inf", n |-> 0, d |-> 1, below |-> FALSE]
NaN == [k |-> "nan", n |-> 0, d |-> 1, below |-> FALSE]

\* Number(text) of a decimal numeral with at most one fractional digit,
\* in tenths; Number("") is 0.
Number(s) ==
    LET p == split(s, ".")
    IN IntVal(p[1]) * Scale
         + (IF Len(p) > 1 /\ Len(p[2]) > 0 THEN DigitVal(p[2][1]) ELSE 0)

\* The pairs <<totalMinutes, distance in tenths>>, distance up to 14.0 km
\* and totalMinutes below 260, whose exact quotient is an integer and whose
\* IEEE-754 double quotient lies one ulp below it (the distance has no
\* exact binary representation).
QuotientBelow ==
    { <<33, 11>>, <<55, 11>>, <<66, 11>>, <<99, 11>>, <<110, 11>>,
      <<121, 11>>, <<132, 11>>, <<198, 11>>, <<209, 11>>, <<220, 11>>,
      <<231, 11>>, <<242, 11>>, <<253, 11>>, <<33, 22>>, <<55, 22>>,
      <<66, 22>>, <<99, 22>>, <<110, 22>>, <<121, 22>>, <<132, 22>>,
      <<198, 22>>, <<209, 22>>, <<220, 22>>, <<231, 22>>, <<242, 22>>,
      <<253, 22>>, <<81, 27>>, <<162, 27>>, <<66, 44>>, <<110, 44>>,
      <<132, 44>>, <<198, 44>>, <<220, 44>>, <<242, 44>>, <<147, 49>>,
      <<245, 49>>, <<81, 54>>, <<162, 54>>, <<177, 59>>, <<249, 83>>,
      <<132, 88>>, <<220, 88>>, <<147, 98>>, <<245, 98>>, <<162, 108>>,
      <<177, 118>> }

\* a / b for a, b >= 0 in tenths
JsDiv(a, b) ==
    IF b = 0 THEN (IF a = 0 THEN NaN ELSE Infinity)
    ELSE [k |-> "fin", n |-> a, d |-> b,
          below |-> <<a \div Scale, b>> \in QuotientBelow]

\* Math.floor
JsFloor(x) ==
    IF x.k # "fin" THEN x
    ELSE IF x.below /\ x.n % x.d = 0 THEN Fin((x.n \div x.d) - 1, 1)
    ELSE Fin(x.n \div x.d, 1)

\* x - y for an integer y
JsSub(x, y) ==
    IF x.k = "nan" \/ y.k = "nan" THEN NaN
    ELSE IF x.k = "inf" /\ y.k = "inf" THEN NaN
    ELSE IF x.k = "inf" THEN Infinity
    ELSE [k |-> "fin", n |-> x.n - y.n * x.d, d |-> x.d, below |-> x.below]

\* x * c for an integer constant c > 0
JsMul(x, c) ==
    IF x.k # "fin" THEN x
    ELSE [k |-> "fin", n |-> x.n * c, d |-> x.d, below |-> x.below]

\* Math.round: the integer nearest to x, ties upwards
JsRound(x) ==
    IF x.k # "fin" THEN x
    ELSE LET m == 2 * x.n + x.d
             e == 2 * x.d
         IN IF x.below /\ m % e = 0 THEN Fin((m \div e) - 1, 1)
            ELSE Fin(m \div e, 1)

\* String(x) of an integer x >= 0, of Infinity and of NaN
JsToString(x) ==
    IF x.k = "inf" THEN <<"I", "n", "f", "i", "n", "i", "t", "y">>
    ELSE IF x.k = "nan" THEN <<"N", "a", "N">>
    ELSE IntToStr(x.n)

(***************************************************************************)
(* calculatePace                                                           *)
(***************************************************************************)
paceSecOf(paceMinutes, paceMin) ==
    JsRound(JsMul(JsSub(paceMinutes, paceMin), 60))

calculatePace(distance, duration) ==
    LET parts == split(duration, ":")
        hours == Number(parts[1])
        minutes == Number(parts[2])
        totalMinutes == hours * 60 + minutes
        paceMinutes == JsDiv(totalMinutes, distance)
        paceMin == JsFloor(paceMinutes)
        paceSec == paceSecOf(paceMinutes, paceMin)
    IN JsToString(paceMin) \o <<":">> \o padStart(JsToString(paceSec), 2, "0")
         \o <<"/", "k", "m">>

(***************************************************************************)
(* Users, form inputs and the form draft                                   *)
(***************************************************************************)
NoSession == "none"

Users == {"A", "B"}

\* new Date().toISOString().split('T')[0]: no run passes midnight
Today == "2025-02-01"

\* what the user types into the form: every field
FormInputs ==
    [date |-> {Today, "2025-03-01"},
     distance |-> {<<>>, <<"0">>, <<"1", "0">>},
     duration |-> {<<>>, <<"0", ":", "5", "9">>},
     location |-> {"", "park"},
     notes |-> {"", "easy"}]

\* what the user types into the form: the required fields only
RequiredInputs ==
    [distance |-> {<<>>, <<"1", "0">>},
     duration |-> {<<>>, <<"0", ":", "5", "9">>}]

\* order of the date column
DateNum(d) ==
    CASE d = "2025-02-01" -> 2
      [] d = "2025-03-01" -> 3

\* useState initial value of formData, and the value handleSubmit resets to
FormDefault ==
    [date |-> Today, distance |-> <<>>, duration |-> <<>>,
     location |-> "", notes |-> ""]

\* pattern="[0-9]{1,2}:[0-9]{2}"
DurationPattern(s) ==
    /\ Len(s) \in {4, 5}
    /\ s[Len(s) - 2] = ":"
    /\ AllDigits(SubSeq(s, 1, Len(s) - 3))
    /\ AllDigits(SubSeq(s, Len(s) - 1, Len(s)))

\* type="number" step="0.1"
DistancePattern(s) ==
    LET p == split(s, ".")
    IN /\ Len(p) \in {1, 2}
       /\ Len(p[1]) > 0 /\ AllDigits(p[1])
       /\ Len(p) = 2 => (Len(p[2]) = 1 /\ AllDigits(p[2]))

\* the browser's validation of the form's required, pattern and step
FormValid ==
    /\ formData.date # ""
    /\ DistancePattern(formData.distance)
    /\ DurationPattern(formData.duration)

(***************************************************************************)
(* The record store: training_records under its row-level policies         *)
(***************************************************************************)
\* Visible without the policy's comparison of the owner
VisibleToAnyUser(uid) == {r \in store : uid # NoSession}

\* USING (auth.uid() = user_id), TO authenticated
Visible(uid) == {r \in store : uid # NoSession /\ r.user_id = uid}

\* WITH CHECK (auth.uid() = user_id), TO authenticated
InsertAllowed(uid, rec) == uid # NoSession /\ rec.user_id = uid

DateDescending(s) ==
    \A i \in 1..(Len(s) - 1) : DateNum(s[i].date) >= DateNum(s[i + 1].date)

\* Ordered with { ascending: true }
OrderedAscending(S) ==
    {s \in [1..Cardinality(S) -> S] :
        /\ \A i, j \in 1..Cardinality(S) : i # j => s[i] # s[j]
        /\ \A i \in 1..(Cardinality(S) - 1) :
              DateNum(s[i].date) <= DateNum(s[i + 1].date)}

\* .order('date', { ascending: false }): rows of equal date in any order
Ordered(S) ==
    {s \in [1..Cardinality(S) -> S] :
        /\ \A i, j \in 1..Cardinality(S) : i # j => s[i] # s[j]
        /\ DateDescending(s)}

(***************************************************************************)
(* Remote calls                                                            *)
(***************************************************************************)
Request(kind, uid, rec, id) ==
    [kind |-> kind, uid |-> uid, status |-> "sent", rec |-> rec, id |-> id,
     data |-> <<>>]

\* supabase.from('training_records').select('*').order(...)
SelectRequest == Request("select", authSession, <<>>, 0)

Pending == BagToSet(inflight)

Room == BagCardinality(inflight) < MaxInflight

Add(bag, q) == bag (+) SetToBag({q})

Remove(bag, q) == bag (-) SetToBag({q})

\* fetchRecords() up to its await
fetchRecords(bag) == Add(bag, SelectRequest)

(***************************************************************************)
(* Initial state: the component is mounted, getSession() is pending        *)
(***************************************************************************)
\* a row created by user A in an earlier run of the application
SeedRow ==
    [id |-> 0] @@
    [user_id |-> "A",
     date |-> Today,
     distance |-> Number(<<"1", "0">>),
     duration |-> <<"0", ":", "5", "9">>,
     pace |-> calculatePace(Number(<<"1", "0">>), <<"0", ":", "5", "9">>),
     location |-> "park",
     notes |-> "easy",
     draft |-> [date |-> Today, distance |-> <<"1", "0">>,
                duration |-> <<"0", ":", "5", "9">>, location |-> "park",
                notes |-> "easy"]]

AppInit ==
    /\ store = {SeedRow}
    /\ nextId = 1
    /\ authSession \in Users \cup {NoSession}
    /\ session = NoSession
    /\ records = <<>>
    /\ showForm = FALSE
    /\ loading = TRUE
    /\ formData = FormDefault
    /\ inflight = EmptyBag
    /\ fetchErr = FALSE
    /\ acted = FALSE
    /\ last = "other"

PaceIdle ==
    /\ paceDistance = 0
    /\ paceDuration = <<>>
    /\ paceResult = <<>>

Init == AppInit /\ PaceIdle

(***************************************************************************)
(* Session                                                                 *)
(***************************************************************************)
\* supabase.auth.getSession().then(...)
getSessionResolved ==
    /\ loading
    /\ session' = authSession
    /\ inflight' = IF authSession # NoSession THEN fetchRecords(inflight)
                   ELSE inflight
    /\ loading' = FALSE
    /\ last' = "other"
    /\ UNCHANGED <<store, nextId, authSession, records, showForm, formData,
                   fetchErr, acted>>
    /\ UNCHANGED paceVars

\* onAuthStateChange without the else branch
onAuthStateChangeKeepsRecords(s) ==
    /\ authSession' = s
    /\ session' = s
    /\ inflight' = IF s # NoSession
                   THEN Add(inflight, Request("select", s, <<>>, 0))
                   ELSE inflight
    /\ records' = records
    /\ fetchErr' = FALSE
    /\ acted' = FALSE
    /\ UNCHANGED <<store, nextId, showForm, loading, formData>>

\* the onAuthStateChange callback, called with the gateway's new session;
\* the gateway changes its session and notifies in one step
onAuthStateChange(s) ==
    /\ authSession' = s
    /\ session' = s
    /\ IF s # NoSession
       THEN /\ inflight' = Add(inflight, Request("select", s, <<>>, 0))
            /\ records' = records
       ELSE /\ records' = <<>>
            /\ inflight' = inflight
    /\ fetchErr' = FALSE
    /\ acted' = FALSE
    /\ UNCHANGED <<store, nextId, showForm, loading, formData>>

\* the login button: signInWithPassword succeeds for user u (a failed login
\* and handleSignUp, which only sends a confirmation mail, change no state)
handleLogin(u) ==
    /\ ~loading
    /\ session = NoSession
    /\ Room
    /\ onAuthStateChange(u)
    /\ last' = "login"
    /\ UNCHANGED paceVars

\* the logout button: signOut succeeds
handleLogout ==
    /\ ~loading
    /\ session # NoSession
    /\ onAuthStateChange(NoSession)
    /\ last' = "logout"
    /\ UNCHANGED paceVars

(***************************************************************************)
(* The form                                                                *)
(***************************************************************************)
\* the new-record button
toggleForm ==
    /\ ~loading
    /\ session # NoSession
    /\ showForm' = ~showForm
    /\ last' = "other"
    /\ UNCHANGED <<store, nextId, authSession, session, records, loading,
                   formData, inflight, fetchErr, acted>>
    /\ UNCHANGED paceVars

\* the cancel button
cancelForm ==
    /\ ~loading
    /\ session # NoSession
    /\ showForm
    /\ showForm' = FALSE
    /\ last' = "cancel"
    /\ UNCHANGED <<store, nextId, authSession, session, records, loading,
                   formData, inflight, fetchErr, acted>>
    /\ UNCHANGED paceVars

FormShown == ~loading /\ session # NoSession /\ showForm

\* the onChange handlers of the five inputs, the user typing one of I
onChange(I) ==
    /\ FormShown
    /\ \E f \in DOMAIN I : \E v \in I[f] :
          /\ formData[f] # v
          /\ formData' = [formData EXCEPT ![f] = v]
    /\ last' = "other"
    /\ UNCHANGED <<store, nextId, authSession, session, records, showForm,
                   loading, inflight, fetchErr, acted>>
    /\ UNCHANGED paceVars

(***************************************************************************)
(* Create, delete and list                                                 *)
(***************************************************************************)
\* newRecord with location and notes taken from each other's input
newRecordSwapsText ==
    [user_id |-> session,
     date |-> formData.date,
     distance |-> Number(formData.distance),
     duration |-> formData.duration,
     pace |-> calculatePace(Number(formData.distance), formData.duration),
     location |-> formData.notes,
     notes |-> formData.location,
     draft |-> formData]

\* draft is history, not a column: the draft the row was submitted from
newRecord ==
    [user_id |-> session,
     date |-> formData.date,
     distance |-> Number(formData.distance),
     duration |-> formData.duration,
     pace |-> calculatePace(Number(formData.distance), formData.duration),
     location |-> formData.location,
     notes |-> formData.notes,
     draft |-> formData]

\* inserts sent and not yet executed
InsertsSent ==
    LET S == {q \in Pending : q.kind = "insert" /\ q.status = "sent"}
    IN BagCardinality([q \in S |-> inflight[q]])

\* handleSubmit up to its await
handleSubmit ==
    /\ FormShown
    /\ FormValid
    /\ Room
    /\ nextId + InsertsSent <= MaxCreates
    /\ inflight' = Add(inflight, Request("insert", authSession,
                                         <<newRecord>>, 0))
    /\ last' = "other"
    /\ UNCHANGED <<store, nextId, authSession, session, records, showForm,
                   loading, formData, fetchErr, acted>>
    /\ UNCHANGED paceVars

\* deleteRecord up to its await: the button of a row of the table
deleteRecord(id) ==
    /\ ~loading
    /\ session # NoSession
    /\ \E i \in 1..Len(records) : records[i].id = id
    /\ Room
    /\ inflight' = Add(inflight, Request("delete", authSession, <<>>, id))
    /\ last' = "other"
    /\ UNCHANGED <<store, nextId, authSession, session, records, showForm,
                   loading, formData, fetchErr, acted>>
    /\ UNCHANGED paceVars

Served(q, status, data) == [q EXCEPT !.status = status, !.data = data]

\* the store executes a select
serveSelect(q) ==
    /\ q \in Pending /\ q.kind = "select" /\ q.status = "sent"
    /\ \E data \in Ordered(Visible(q.uid)) :
          inflight' = Add(Remove(inflight, q), Served(q, "ok", data))
    /\ last' = "other"
    /\ UNCHANGED <<store, nextId, authSession, session, records, showForm,
                   loading, formData, fetchErr, acted>>
    /\ UNCHANGED paceVars

\* the store executes an insert
serveInsert(q) ==
    /\ q \in Pending /\ q.kind = "insert" /\ q.status = "sent"
    /\ IF InsertAllowed(q.uid, q.rec[1])
       THEN /\ store' = store \cup {[id |-> nextId] @@ q.rec[1]}
            /\ nextId' = nextId + 1
            /\ inflight' = Add(Remove(inflight, q), Served(q, "ok", <<>>))
       ELSE /\ inflight' = Add(Remove(inflight, q), Served(q, "err", <<>>))
            /\ UNCHANGED <<store, nextId>>
    /\ last' = "other"
    /\ UNCHANGED <<authSession, session, records, showForm, loading, formData,
                   fetchErr, acted>>
    /\ UNCHANGED paceVars

\* the store executes a delete: .eq('id', id) over the rows the policy shows
serveDelete(q) ==
    /\ q \in Pending /\ q.kind = "delete" /\ q.status = "sent"
    /\ store' = store \ {r \in Visible(q.uid) : r.id = q.id}
    /\ inflight' = Add(Remove(inflight, q), Served(q, "ok", <<>>))
    /\ last' = "other"
    /\ UNCHANGED <<nextId, authSession, session, records, showForm, loading,
                   formData, fetchErr, acted>>
    /\ UNCHANGED paceVars

\* a call fails: transport or store error
serveError(q) ==
    /\ q \in Pending /\ q.status = "sent"
    /\ inflight' = Add(Remove(inflight, q), Served(q, "err", <<>>))
    /\ last' = "other"
    /\ UNCHANGED <<store, nextId, authSession, session, records, showForm,
                   loading, formData, fetchErr, acted>>
    /\ UNCHANGED paceVars

\* fetchRecords after its await
fetchRecordsResolved(q) ==
    /\ q \in Pending /\ q.kind = "select" /\ q.status # "sent"
    /\ inflight' = Remove(inflight, q)
    /\ IF q.status = "err"
       THEN /\ records' = records
            /\ fetchErr' = TRUE
            /\ last' = "other"
       ELSE /\ records' = q.data
            /\ fetchErr' = fetchErr
            /\ last' = "fetched"
    /\ UNCHANGED <<store, nextId, authSession, session, showForm, loading,
                   formData, acted>>
    /\ UNCHANGED paceVars

\* handleSubmitResolved closing and resetting the form whatever the outcome
handleSubmitResolvedResetsOnError(q) ==
    /\ q \in Pending /\ q.kind = "insert" /\ q.status # "sent"
    /\ IF q.status = "err"
       THEN /\ inflight' = Remove(inflight, q)
            /\ acted' = acted
            /\ last' = "insertError"
       ELSE /\ inflight' = fetchRecords(Remove(inflight, q))
            /\ acted' = TRUE
            /\ last' = "inserted"
    /\ showForm' = FALSE
    /\ formData' = FormDefault
    /\ UNCHANGED <<store, nextId, authSession, session, records, loading,
                   fetchErr>>
    /\ UNCHANGED paceVars

\* handleSubmitResolved without the setFormData of the success branch
handleSubmitResolvedKeepsDraft(q) ==
    /\ q \in Pending /\ q.kind = "insert" /\ q.status # "sent"
    /\ IF q.status = "err"
       THEN /\ inflight' = Remove(inflight, q)
            /\ UNCHANGED <<showForm, acted>>
            /\ last' = "insertError"
       ELSE /\ inflight' = fetchRecords(Remove(inflight, q))
            /\ showForm' = FALSE
            /\ acted' = TRUE
            /\ last' = "inserted"
    /\ formData' = formData
    /\ UNCHANGED <<store, nextId, authSession, session, records, loading,
                   fetchErr>>
    /\ UNCHANGED paceVars

\* handleSubmit after its await
handleSubmitResolved(q) ==
    /\ q \in Pending /\ q.kind = "insert" /\ q.status # "sent"
    /\ IF q.status = "err"
       THEN /\ inflight' = Remove(inflight, q)
            /\ UNCHANGED <<showForm, formData, acted>>
            /\ last' = "insertError"
       ELSE /\ inflight' = fetchRecords(Remove(inflight, q))
            /\ showForm' = FALSE
            /\ formData' = FormDefault
            /\ acted' = TRUE
            /\ last' = "inserted"
    /\ UNCHANGED <<store, nextId, authSession, session, records, loading,
                   fetchErr>>
    /\ UNCHANGED paceVars

\* deleteRecord after its await
deleteRecordResolved(q) ==
    /\ q \in Pending /\ q.kind = "delete" /\ q.status # "sent"
    /\ IF q.status = "err"
       THEN /\ inflight' = Remove(inflight, q)
            /\ acted' = acted
       ELSE /\ inflight' = fetchRecords(Remove(inflight, q))
            /\ acted' = TRUE
    /\ last' = "other"
    /\ UNCHANGED <<store, nextId, authSession, session, records, showForm,
                   loading, formData, fetchErr>>
    /\ UNCHANGED paceVars

Next ==
    \/ getSessionResolved
    \/ \E u \in Users : handleLogin(u)
    \/ handleLogout
    \/ toggleForm
    \/ cancelForm
    \/ onChange(RequiredInputs)
    \/ handleSubmit
    \/ \E id \in 0..MaxCreates : deleteRecord(id)
    \/ \E q \in Pending : serveSelect(q)
    \/ \E q \in Pending : serveInsert(q)
    \/ \E q \in Pending : serveDelete(q)
    \/ \E q \in Pending : serveError(q)
    \/ \E q \in Pending : fetchRecordsResolved(q)
    \/ \E q \in Pending : handleSubmitResolved(q)
    \/ \E q \in Pending : deleteRecordResolved(q)

Spec == Init /\ [][Next]_vars

(***************************************************************************)
(* Sessions and the table only: the form stays closed                      *)
(***************************************************************************)
SessionNext ==
    \/ getSessionResolved
    \/ \E u \in Users : handleLogin(u)
    \/ handleLogout
    \/ \E id \in 0..MaxCreates : deleteRecord(id)
    \/ \E q \in Pending : serveSelect(q)
    \/ \E q \in Pending : serveDelete(q)
    \/ \E q \in Pending : serveError(q)
    \/ \E q \in Pending : fetchRecordsResolved(q)
    \/ \E q \in Pending : deleteRecordResolved(q)

SessionSpec == Init /\ [][SessionNext]_vars

(***************************************************************************)
(* One user who stays signed in and types into every field of the form     *)
(***************************************************************************)
\* the user waits for the pending call before starting another
Idle == inflight = EmptyBag

FormInit == Init /\ authSession = "A"

FormNext ==
    \/ getSessionResolved
    \/ toggleForm
    \/ cancelForm
    \/ onChange(FormInputs)
    \/ Idle /\ handleSubmit
    \/ \E q \in Pending : serveSelect(q)
    \/ \E q \in Pending : serveInsert(q)
    \/ \E q \in Pending : q.kind = "insert" /\ serveError(q)
    \/ \E q \in Pending : fetchRecordsResolved(q)
    \/ \E q \in Pending : handleSubmitResolved(q)

FormSpec == FormInit /\ [][FormNext]_vars

(***************************************************************************)
(* calculatePace on its own                                                *)
(***************************************************************************)
DurationText(h, m) ==
    IntToStr(h) \o <<":">> \o padStart(IntToStr(m), 2, "0")

PaceInit ==
    /\ AppInit
    /\ authSession = NoSession
    /\ paceDistance \in 0..MaxDist10
    /\ \E h \in 0..MaxHours, m \in 0..MaxMinutes :
          paceDuration = DurationText(h, m)
    /\ paceResult = <<>>

callCalculatePace ==
    /\ paceResult = <<>>
    /\ paceResult' = calculatePace(paceDistance, paceDuration)
    /\ UNCHANGED <<paceDistance, paceDuration>>
    /\ UNCHANGED appVars

PaceNext == callCalculatePace

PaceSpec == PaceInit /\ [][PaceNext]_vars

(***************************************************************************)
(* Properties                                                              *)
(***************************************************************************)
\* ^\d+:\d{2}/km$
PaceIsNumeric(p) ==
    LET parts == split(p, ":")
    IN /\ Len(parts) = 2
       /\ Len(parts[1]) >= 1 /\ AllDigits(parts[1])
       /\ Len(parts[2]) = 5
       /\ AllDigits(SubSeq(parts[2], 1, 2))
       /\ SubSeq(parts[2], 3, 5) = <<"/", "k", "m">>

PaceSeconds(p) == IntVal(SubSeq(split(p, ":")[2], 1, 2))

Owned(data, uid) == \A i \in 1..Len(data) : data[i].user_id = uid

\* the row holds what its draft held, and the pace computed from the draft
RowOfDraft(r) ==
    /\ r.date = r.draft.date
    /\ r.distance = Number(r.draft.distance)
    /\ r.duration = r.draft.duration
    /\ r.location = r.draft.location
    /\ r.notes = r.draft.notes
    /\ r.pace = calculatePace(Number(r.draft.distance), r.draft.duration)

\* this step takes one copy of q out of the calls in flight
Leaves(q) == CopiesIn(q, inflight') < CopiesIn(q, inflight)

\* this step puts one copy of q among the calls in flight
Enters(q) == CopiesIn(q, inflight') > CopiesIn(q, inflight)

\* C1: for every distance > 0 and every duration H:MM, calculatePace returns
\* <minutes>:<two digits>/km with the two digits in 0..59.
C1_SecondsInRange ==
    (paceResult # <<>> /\ paceDistance > 0) =>
        (PaceIsNumeric(paceResult) /\ PaceSeconds(paceResult) <= 59)

\* C2: a submission with distance 0 sends no record to the store whose pace
\* is an infinite or NaN pace string.
C2_ZeroDistanceNotSent ==
    \A q \in Pending :
        (q.kind = "insert" /\ q.rec[1].distance = 0) =>
            PaceIsNumeric(q.rec[1].pace)

\* C3: a list answered to one user holds no row of another user, and a
\* delete the store executes for a user on the id of a row of another user
\* is answered without an error and leaves the row in the store.
C3_Authorization ==
    [][/\ \A q \in BagToSet(inflight') :
             q.kind = "select" => Owned(q.data, q.uid)
       /\ \A q \in Pending :
             (/\ serveDelete(q)
              /\ \E r \in store : r.id = q.id /\ r.user_id # q.uid)
             => (store' = store /\ Enters(Served(q, "ok", <<>>)))]_vars

C3_Witness ==
    \E q \in Pending :
        /\ q.kind = "delete" /\ q.status = "ok"
        /\ \E r \in store : r.id = q.id /\ r.user_id # q.uid

\* C4: when the session goes from present to absent the record list is
\* emptied; when it goes from absent to present a list fetch of the new
\* user is started; and a fetch that succeeds makes the record list the
\* rows it returned, all of them rows of the user it was started for.
C4_SessionTransitions ==
    [][/\ (session # NoSession /\ session' = NoSession) => records' = <<>>
       /\ (session = NoSession /\ session' # NoSession)
             => Enters(Request("select", session', <<>>, 0))
       /\ \A q \in Pending :
             (q.kind = "select" /\ q.status = "ok" /\ Leaves(q))
             => (records' = q.data /\ Owned(records', q.uid))]_vars

C4_Witness ==
    /\ last = "logout"
    /\ session = NoSession
    /\ records = <<>>
    /\ \E q \in Pending : q.kind = "select" /\ q.data # <<>>

\* C5: after a successful create or delete of the signed-in user, once no
\* remote call is outstanding and no fetch has failed, the record list is
\* the list of the store's rows of that user.
C5_EventuallyConsistent ==
    (inflight = EmptyBag /\ session # NoSession /\ acted /\ ~fetchErr)
        => records \in Ordered(Visible(session))

\* C6: every list the store answers holds each row of its user, and each
\* such row has the date, distance, duration, location and notes of the
\* draft it was submitted from and the pace calculatePace gives for them.
C6_RoundTrip ==
    [][\A q \in Pending : \A a \in BagToSet(inflight') :
          (/\ q.kind = "select" /\ q.status = "sent" /\ Leaves(q)
           /\ a = Served(q, "ok", a.data) /\ Enters(a))
          => \A r \in store :
                r.user_id = q.uid =>
                    (RowOfDraft(r) /\ \E i \in 1..Len(a.data) : a.data[i] = r)
      ]_vars

C6_Witness ==
    \E i \in 1..Len(records) :
        /\ records[i].id # 0
        /\ records[i].user_id = session
        /\ records[i].date = "2025-03-01"
        /\ records[i].distance = 100
        /\ records[i].location = "park"
        /\ records[i].notes = "easy"
        /\ records[i].pace = <<"5", ":", "5", "4", "/", "k", "m">>

\* C7: when the answer to a create is an error, showForm, formData and the
\* record list stay as they are and no call is started.
C7_FailedCreateLeavesForm ==
    [][\A q \in Pending :
          (q.kind = "insert" /\ q.status = "err" /\ Leaves(q))
          => /\ showForm' = showForm
             /\ formData' = formData
             /\ records' = records
             /\ inflight' = Remove(inflight, q)]_vars

C7_Witness ==
    /\ last = "insertError"
    /\ showForm
    /\ formData.distance # <<>>
    /\ formData.location = "park"
    /\ inflight = EmptyBag

\* C8 as stated: after a successful create and after a cancel the draft
\* holds its defaults.
C8_ResetAfterCreateAndCancel ==
    last \in {"inserted", "cancel"} => formData = FormDefault

\* C8 amended: a successful create closes the form and resets the draft to
\* its defaults; a cancel closes the form and leaves the draft as typed; the
\* draft changes in no other way than by a successful create or by typing
\* into the open form.
C8_ResetAfterCreateOnly ==
    [][/\ last' = "inserted" => (formData' = FormDefault /\ ~showForm')
       /\ last' = "cancel" => (formData' = formData /\ ~showForm')
       /\ (formData' # formData /\ last' # "inserted")
             => (showForm /\ showForm')]_vars

C8_Witness ==
    /\ last = "inserted"
    /\ formData = FormDefault
    /\ \E r \in store : r.id # 0 /\ r.draft.notes = "easy"

\* C9: the record list is sorted by date, latest first, whatever the order
\* in which the rows were created.
C9_SortedByDateDescending == DateDescending(records)

C9_Witness ==
    /\ last = "fetched"
    /\ Len(records) = 2
    /\ DateNum(records[1].date) > DateNum(records[2].date)
    /\ records[1].id > records[2].id

\* C10: every row of the record list is a row of the user of the session,
\* and the list is empty when there is no session.
C10_RecordsOfSession == Owned(records, session)

=============================================================================
